---- MODULE Spec2Model ----
(***************************************************************************)
(* A model of 0x02-redis_basic/exercise.py: the Cache facade over a Redis  *)
(* keyspace, the count_calls and call_history decorators around            *)
(* Cache.store, and the replay utility.                                    *)
(*                                                                         *)
(* Text (Python str) is a sequence of code points, a byte string is a      *)
(* sequence of byte values.  Every Python value, Redis entry and call      *)
(* result is a tagged record, so that values of different kinds compare.   *)
(***************************************************************************)
EXTENDS Integers, Sequences, FiniteSets, TLC

\* ------------------------------------------------------------------------
\* Bounds of the model
\* ------------------------------------------------------------------------

\* How many distinct keys uuid4 can hand out in one behaviour.
MaxKeys == 2

\* How many writes of store calls (rpush, incr, set) may fail between two
\* successful flushes; reads and flushes may fail without limit.
MaxFails == 2

\* How many callers exist (the specification Spec runs the first one alone).
NCallers == 2

\* ------------------------------------------------------------------------
\* Python values
\* ------------------------------------------------------------------------

PyNone == [ty |-> "NoneType"]

PyStr(s) == [ty |-> "str", s |-> s]

PyBytes(b) == [ty |-> "bytes", b |-> b]

PyInt(n) == [ty |-> "int", n |-> n]

\* A float with one decimal digit: ip + fd/10  (ip >= 0, fd in 0..9).
PyFloat(ip, fd) == [ty |-> "float", ip |-> ip, fd |-> fd]

\* How a call ends: by returning a value or by raising an exception.
Return(v) == [kind |-> "return", val |-> v]

Raise(e) == [kind |-> "raise", exc |-> e]

\* ------------------------------------------------------------------------
\* Text and byte conversions (str.encode, bytes.decode, repr, str, int)
\* ------------------------------------------------------------------------

\* Whether every element of s is below 128 (ASCII: text and its UTF-8 bytes
\* are then the same sequence).
IsAscii(s) == \A i \in 1..Len(s) : s[i] < 128

\* "...".encode("utf-8") for code points below U+0800.
RECURSIVE Utf8Encode(_)
Utf8Encode(s) ==
    IF IsAscii(s) THEN s
    ELSE LET cp == Head(s)
         IN (IF cp < 128 THEN <<cp>>
             ELSE <<192 + (cp \div 64), 128 + (cp % 64)>>)
            \o Utf8Encode(Tail(s))

\* Whether b is well-formed UTF-8 (one- and two-byte sequences).
RECURSIVE Utf8Valid(_)
Utf8Valid(b) ==
    IF IsAscii(b) THEN TRUE
    ELSE IF b[1] < 128 THEN Utf8Valid(Tail(b))
    ELSE IF b[1] >= 194 /\ b[1] <= 223 /\ Len(b) >= 2
            /\ b[2] >= 128 /\ b[2] <= 191
         THEN Utf8Valid(Tail(Tail(b)))
    ELSE FALSE

\* b.decode("utf-8") of well-formed b.
RECURSIVE Utf8Decode(_)
Utf8Decode(b) ==
    IF IsAscii(b) THEN b
    ELSE IF b[1] < 128 THEN <<b[1]>> \o Utf8Decode(Tail(b))
    ELSE <<(b[1] - 192) * 64 + (b[2] - 128)>> \o Utf8Decode(Tail(Tail(b)))

\* The character of one decimal or hexadecimal digit.
DigitChar(d) == IF d < 10 THEN 48 + d ELSE 87 + d

\* repr(n) of an int: its decimal text.
RECURSIVE DecText(_)
DecText(n) ==
    IF n < 0 THEN <<45>> \o DecText(-n)
    ELSE IF n < 10 THEN <<DigitChar(n)>>
    ELSE DecText(n \div 10) \o <<DigitChar(n % 10)>>

\* The quote repr() picks: ' unless the text holds a ' and no ".
ReprQuote(s) ==
    IF (\E i \in 1..Len(s) : s[i] = 39) /\ ~(\E i \in 1..Len(s) : s[i] = 34)
    THEN 34 ELSE 39

\* A backslash escape of repr(): \t \n \r \\ \' or \xhh.
ReprEscape(c) ==
    IF c = 9 THEN <<92, 116>>
    ELSE IF c = 10 THEN <<92, 110>>
    ELSE IF c = 13 THEN <<92, 114>>
    ELSE IF c = 92 \/ c = 39 \/ c = 34 THEN <<92, c>>
    ELSE <<92, 120, DigitChar(c \div 16), DigitChar(c % 16)>>

\* The body of repr(str) between the quotes (Latin-1 code points).
RECURSIVE ReprStrBody(_, _)
ReprStrBody(s, q) ==
    IF s = <<>> THEN <<>>
    ELSE LET c == Head(s)
             printable == (c >= 32 /\ c <= 126) \/ (c >= 161 /\ c # 173)
         IN (IF c = 92 \/ c = q \/ ~printable THEN ReprEscape(c) ELSE <<c>>)
            \o ReprStrBody(Tail(s), q)

\* The body of repr(bytes) between the quotes.
RECURSIVE ReprBytesBody(_, _)
ReprBytesBody(b, q) ==
    IF b = <<>> THEN <<>>
    ELSE LET c == Head(b)
         IN (IF c = 92 \/ c = q \/ c < 32 \/ c > 126 THEN ReprEscape(c) ELSE <<c>>)
            \o ReprBytesBody(Tail(b), q)

\* repr(v) of a str, bytes, int or float.
PyRepr(v) ==
    IF v.ty = "str"
    THEN LET q == ReprQuote(v.s) IN <<q>> \o ReprStrBody(v.s, q) \o <<q>>
    ELSE IF v.ty = "bytes"
    THEN LET q == ReprQuote(v.b) IN <<98, q>> \o ReprBytesBody(v.b, q) \o <<q>>
    ELSE IF v.ty = "int" THEN DecText(v.n)
    ELSE DecText(v.ip) \o <<46>> \o DecText(v.fd)

\* str(args) of the one-element argument tuple (data,): "(" repr(data) ",)".
StrArgs(data) == <<40>> \o PyRepr(data) \o <<44, 41>>

\* Bytes with leading and trailing ASCII whitespace removed, as int() does.
RECURSIVE StripWs(_)
StripWs(b) ==
    LET ws(c) == (c >= 9 /\ c <= 13) \/ c = 32
    IN IF b = <<>> THEN b
       ELSE IF ws(b[1]) THEN StripWs(Tail(b))
       ELSE IF ws(b[Len(b)]) THEN StripWs(SubSeq(b, 1, Len(b) - 1))
       ELSE b

\* Whether d is a digit string int() accepts: digits, single underscores
\* only between digits.
IsDigits(d) ==
    /\ d # <<>>
    /\ \A i \in 1..Len(d) : (d[i] >= 48 /\ d[i] <= 57) \/ d[i] = 95
    /\ d[1] # 95 /\ d[Len(d)] # 95
    /\ \A i \in 1..(Len(d) - 1) : ~(d[i] = 95 /\ d[i + 1] = 95)

\* The number a digit string stands for.
RECURSIVE DigitsValue(_)
DigitsValue(d) ==
    IF d = <<>> THEN 0
    ELSE IF d[Len(d)] = 95 THEN DigitsValue(SubSeq(d, 1, Len(d) - 1))
    ELSE DigitsValue(SubSeq(d, 1, Len(d) - 1)) * 10 + (d[Len(d)] - 48)

\* The text int() parses after stripping, without its sign.
IntDigits(b) ==
    LET t == StripWs(b)
    IN IF t # <<>> /\ (t[1] = 43 \/ t[1] = 45) THEN Tail(t) ELSE t

\* Whether int(b) succeeds on the bytes b (otherwise it raises ValueError).
IntParses(b) == IsDigits(IntDigits(b))

\* int(b) of bytes b that parse.
IntValue(b) ==
    LET t == StripWs(b)
    IN IF t[1] = 45 THEN -DigitsValue(IntDigits(b)) ELSE DigitsValue(IntDigits(b))

\* ------------------------------------------------------------------------
\* Names and keys
\* ------------------------------------------------------------------------

Callers == 1..NCallers

\* "Cache.store": the __qualname__ of the decorated method.
QualStore == <<67, 97, 99, 104, 101, 46, 115, 116, 111, 114, 101>>

\* f"{name}:inputs" and f"{name}:outputs".
InKey(name) == name \o <<58, 105, 110, 112, 117, 116, 115>>

OutKey(name) == name \o <<58, 111, 117, 116, 112, 117, 116, 115>>

\* The n-th UUID that uuid4 returns, as 32 hexadecimal digits: version digit
\* 4, variant digit 8, the rest 0 but the last.  uuid4 is random; the code
\* never looks into a key, so which fresh UUID a call draws makes no
\* difference, and the model hands them out in this order.
UUID4(n) == [i \in 1..32 |-> IF i = 13 THEN 4 ELSE IF i = 17 THEN 8
                             ELSE IF i = 32 THEN n ELSE 0]

UUIDPool == {UUID4(n) : n \in 1..MaxKeys}

\* str(u): the digits in groups of 8-4-4-4-12 joined by hyphens.
UuidText(u) ==
    LET hex(i, j) == [k \in 1..(j - i + 1) |-> DigitChar(u[i + k - 1])]
    IN hex(1, 8) \o <<45>> \o hex(9, 12) \o <<45>> \o hex(13, 16) \o <<45>>
       \o hex(17, 20) \o <<45>> \o hex(21, 32)

\* The values store is called with: 'h\xe9' (str), b'\xff1' (bytes, not
\* UTF-8), -12 (int) and 1.5 (float).
DataValues == {PyStr(<<104, 233>>), PyBytes(<<255, 49>>), PyInt(-12), PyFloat(1, 5)}

\* The transforms get is called with: none, x.decode("utf-8") and int(x).
Transforms == {"none", "decode", "int"}

\* The keys get is called with: every key uuid4 can return, one of them with
\* an "x" appended, and the three keys the decorators write.
GetKeys ==
    {UuidText(u) : u \in UUIDPool} \cup {UuidText(UUID4(1)) \o <<120>>}
    \cup {QualStore, InKey(QualStore), OutKey(QualStore)}

\* ------------------------------------------------------------------------
\* The Redis keyspace: a function from the keys present to their entries
\* ------------------------------------------------------------------------

RString(b) == [t |-> "string", s |-> b]

RList(l) == [t |-> "list", l |-> l]

EmptyDb == [k \in {} |-> RString(<<>>)]

\* How the client encodes a key or value it sends: bytes as they are, int and
\* float as their repr, str as UTF-8.
RedisEncode(v) ==
    IF v.ty = "bytes" THEN v.b
    ELSE IF v.ty = "str" THEN Utf8Encode(v.s)
    ELSE Utf8Encode(PyRepr(v))

\* Whether the server holds a key with an entry of another type than t
\* (the command is then answered with a WRONGTYPE error, a RedisError).
WrongType(d, k, t) == k \in DOMAIN d /\ d[k].t # t

\* Whether the bytes are an integer as the server reads one for INCR.
RedisIsInt(b) ==
    /\ b # <<>>
    /\ LET digits == IF b[1] = 45 THEN Tail(b) ELSE b
       IN /\ digits # <<>>
          /\ \A i \in 1..Len(digits) : digits[i] >= 48 /\ digits[i] <= 57

\* GET k: the bytes under k, or None.
RedisGet(d, k) == IF k \in DOMAIN d THEN PyBytes(d[k].s) ELSE PyNone

\* SET k b: k holds the string b, whatever it held.
RedisSet(d, k, b) == [x \in DOMAIN d \cup {k} |-> IF x = k THEN RString(b) ELSE d[x]]

\* Whether INCR k is answered with an error.
RedisIncrErr(d, k) == k \in DOMAIN d /\ (d[k].t # "string" \/ ~RedisIsInt(d[k].s))

\* INCR k: the number under k (0 when absent) plus one, as decimal text.
RedisIncr(d, k) ==
    LET old == IF k \in DOMAIN d THEN IntValue(d[k].s) ELSE 0
    IN RedisSet(d, k, DecText(old + 1))

\* A push at the head of the list (LPUSH) in place of the tail.
RedisRpush_AtHead(d, k, b) ==
    [x \in DOMAIN d \cup {k} |->
        IF x = k THEN RList(<<b>> \o (IF k \in DOMAIN d THEN d[k].l ELSE <<>>))
        ELSE d[x]]

\* RPUSH k b: b appended at the tail of the list under k.
RedisRpush(d, k, b) ==
    [x \in DOMAIN d \cup {k} |->
        IF x = k THEN RList((IF k \in DOMAIN d THEN d[k].l ELSE <<>>) \o <<b>>)
        ELSE d[x]]

\* LRANGE k 0 -1: the whole list under k, empty when k is absent.
RedisLrange(d, k) == IF k \in DOMAIN d THEN d[k].l ELSE <<>>

\* A flush that removes the string keys and leaves the lists behind.
RedisFlushdb_KeepsLists(d) ==
    [k \in {x \in DOMAIN d : d[x].t = "list"} |-> d[k]]

\* FLUSHDB: no key is left.
RedisFlushdb(d) == EmptyDb

\* ------------------------------------------------------------------------
\* The facade's pure parts
\* ------------------------------------------------------------------------

\* The two lambdas of get_str and get_int applied to the raw bytes: decode
\* raises UnicodeDecodeError and int raises ValueError on bytes they reject.
ApplyFn(fn, b) ==
    IF fn = "decode"
    THEN IF Utf8Valid(b) THEN Return(PyStr(Utf8Decode(b))) ELSE Raise("UnicodeDecodeError")
    ELSE IF IntParses(b) THEN Return(PyInt(IntValue(b))) ELSE Raise("ValueError")

\* A get whose except clause lets the failed read escape to the caller.
Cache_get_NoExcept(d, key, fn, ok) ==
    LET k == Utf8Encode(key)
    IN IF ~ok \/ WrongType(d, k, "string") THEN Raise("RedisError")
       ELSE LET data == RedisGet(d, k)
            IN IF data = PyNone THEN Return(PyNone)
               ELSE IF fn # "none" THEN ApplyFn(fn, data.b)
               ELSE Return(data)

\* Cache.get(key, fn) on the keyspace d; ok is whether the read reaches the
\* server.  A RedisError (no answer, or WRONGTYPE) is caught and gives None.
Cache_get(d, key, fn, ok) ==
    LET k == Utf8Encode(key)
    IN IF ~ok \/ WrongType(d, k, "string") THEN Return(PyNone)
       ELSE LET data == RedisGet(d, k)
            IN IF data = PyNone THEN Return(PyNone)
               ELSE IF fn # "none" THEN ApplyFn(fn, data.b)
               ELSE Return(data)

\* Cache.get_str(key) and Cache.get_int(key).
Cache_get_str(d, key, ok) == Cache_get(d, key, "decode", ok)

Cache_get_int(d, key, ok) == Cache_get(d, key, "int", ok)

\* int(redis_store.get(name) or 0) of replay on the answer data of the read.
ReplayCount(data) ==
    IF data = PyNone \/ data.b = <<>> THEN Return(PyInt(0))
    ELSE ApplyFn("int", data.b)

\* The lines replay prints.
SummaryLine(name, n) == [line |-> "summary", name |-> name, count |-> n]

CallLine(name, in, out) == [line |-> "call", name |-> name, input |-> in, output |-> out]

ErrorLine(msg) == [line |-> "error", msg |-> msg]

\* A loop that stops one pair short of zip(inputs, outputs).
ReplayLines_OneShort(name, ins, outs) ==
    LET n == IF Len(ins) < Len(outs) THEN Len(ins) ELSE Len(outs)
    IN [i \in 1..(n - 1) |-> CallLine(name, Utf8Decode(ins[i]), Utf8Decode(outs[i]))]

\* The lines of replay's loop over zip(inputs, outputs), both decoded.
ReplayLines(name, ins, outs) ==
    LET n == IF Len(ins) < Len(outs) THEN Len(ins) ELSE Len(outs)
    IN [i \in 1..n |-> CallLine(name, Utf8Decode(ins[i]), Utf8Decode(outs[i]))]

\* What replay can be handed: the bound method cache.store, None, a plain
\* function (no __self__), and a bound method of an object that has no Redis
\* client under _redis.
ReplayRefs ==
    {[ref |-> "bound", name |-> QualStore], [ref |-> "none", name |-> <<>>],
     [ref |-> "function", name |-> QualStore], [ref |-> "noredis", name |-> QualStore]}

\* ------------------------------------------------------------------------
\* State
\* ------------------------------------------------------------------------

VARIABLES
    db,     \* the Redis keyspace every facade talks to
    pc,     \* per caller: where it is in its current call
    fr,     \* per caller: the locals of its current call
    used,   \* the UUIDs uuid4 has returned so far
    calls,  \* history variable: the store calls that returned since the last flush
    nFail   \* history variable: how many writes of store calls failed since the last flush

vars == <<db, pc, fr, used, calls, nFail>>

\* The locals of a caller that is in no call.
NoFrame ==
    [op |-> "idle", data |-> PyNone, key |-> <<>>, fn |-> "none", name |-> <<>>,
     ok |-> TRUE, inOk |-> FALSE, incOk |-> FALSE, setOk |-> FALSE, outOk |-> FALSE,
     runs |-> 0, inner |-> <<>>, cnt0 |-> PyNone, inputs |-> <<>>,
     printed |-> <<>>, ret |-> [kind |-> "none"],
     ref |-> "", reads |-> 0, db0 |-> EmptyDb, inIdx |-> 0, outIdx |-> 0]

Init ==
    /\ db = EmptyDb
    /\ pc = [c \in Callers |-> "idle"]
    /\ fr = [c \in Callers |-> NoFrame]
    /\ used = {}
    /\ calls = <<>>
    /\ nFail = 0

\* A write of a store call may fail to reach the server while the failure
\* budget lasts.
MayFail(ok) == ok \/ nFail < MaxFails

Failed(ok) == IF ok THEN nFail ELSE nFail + 1

\* ------------------------------------------------------------------------
\* Cache.__init__
\* ------------------------------------------------------------------------

\* Cache(): the client object is made without talking to the server, then
\* flushdb is sent; a RedisError from it is caught.
Cache_init(c) ==
    /\ pc[c] = "idle"
    /\ \E ok \in BOOLEAN :
        /\ db' = IF ok THEN RedisFlushdb(db) ELSE db
        /\ calls' = IF ok THEN <<>> ELSE calls
        /\ nFail' = IF ok THEN 0 ELSE nFail
        /\ fr' = [fr EXCEPT ![c] = [NoFrame EXCEPT !.op = "init", !.ok = ok,
                          !.cnt0 = RedisGet(db, Utf8Encode(QualStore)),
                          !.ret = Return(PyNone)]]
    /\ pc' = [pc EXCEPT ![c] = "done"]
    /\ UNCHANGED used

\* ------------------------------------------------------------------------
\* Cache.store under call_history and count_calls
\* ------------------------------------------------------------------------

\* Whether the pool still has a fresh UUID for one more call of store, beside
\* the calls that are under way and have not drawn theirs.
KeyLeft ==
    Cardinality(used) + Cardinality({o \in Callers : pc[o] \in {"count_calls", "store"}})
        < MaxKeys

\* A call_history that sends the rpush of the input twice.
call_history_inputs_PushesTwice(c) ==
    /\ pc[c] = "idle"
    /\ KeyLeft
    /\ \E data \in DataValues, ok \in BOOLEAN :
        /\ MayFail(ok)
        /\ LET k == Utf8Encode(InKey(QualStore))
               pushed == ok /\ ~WrongType(db, k, "list")
               arg == Utf8Encode(StrArgs(data))
           IN /\ db' = IF pushed THEN RedisRpush(RedisRpush(db, k, arg), k, arg) ELSE db
              /\ fr' = [fr EXCEPT ![c] = [NoFrame EXCEPT !.op = "store", !.data = data,
                            !.inOk = pushed, !.db0 = db,
                            !.inIdx = IF pushed THEN Len(RedisLrange(db, k)) + 1 ELSE 0,
                            !.cnt0 = RedisGet(db, Utf8Encode(QualStore))]]
        /\ nFail' = Failed(ok)
    /\ pc' = [pc EXCEPT ![c] = "count_calls"]
    /\ UNCHANGED <<used, calls>>

\* call_history.invoker up to the call of the wrapped method: rpush of
\* str(args) to the inputs list, a RedisError caught.
call_history_inputs(c) ==
    /\ pc[c] = "idle"
    /\ KeyLeft
    /\ \E data \in DataValues, ok \in BOOLEAN :
        /\ MayFail(ok)
        /\ LET k == Utf8Encode(InKey(QualStore))
               pushed == ok /\ ~WrongType(db, k, "list")
           IN /\ db' = IF pushed THEN RedisRpush(db, k, Utf8Encode(StrArgs(data))) ELSE db
              /\ fr' = [fr EXCEPT ![c] = [NoFrame EXCEPT !.op = "store", !.data = data,
                            !.inOk = pushed, !.db0 = db,
                            !.inIdx = IF pushed THEN Len(RedisLrange(db, k)) + 1 ELSE 0,
                            !.cnt0 = RedisGet(db, Utf8Encode(QualStore))]]
        /\ nFail' = Failed(ok)
    /\ pc' = [pc EXCEPT ![c] = "count_calls"]
    /\ UNCHANGED <<used, calls>>

\* A count_calls that counts under method.__name__ ("store") instead of
\* method.__qualname__.
count_calls_invoker_ByName(c) ==
    /\ pc[c] = "count_calls"
    /\ \E ok \in BOOLEAN :
        /\ MayFail(ok)
        /\ LET k == Utf8Encode(<<115, 116, 111, 114, 101>>)
               counted == ok /\ ~RedisIncrErr(db, k)
           IN /\ db' = IF counted THEN RedisIncr(db, k) ELSE db
              /\ fr' = [fr EXCEPT ![c].incOk = counted]
        /\ nFail' = Failed(ok)
    /\ pc' = [pc EXCEPT ![c] = "store"]
    /\ UNCHANGED <<used, calls>>

\* A count_calls whose failed incr ends the call before the wrapped method
\* runs (the return statement inside the try block's success path).
count_calls_invoker_SkipsMethod(c) ==
    /\ pc[c] = "count_calls"
    /\ \E ok \in BOOLEAN :
        /\ MayFail(ok)
        /\ LET k == Utf8Encode(QualStore)
               counted == ok /\ ~RedisIncrErr(db, k)
           IN /\ db' = IF counted THEN RedisIncr(db, k) ELSE db
              /\ fr' = [fr EXCEPT ![c].incOk = counted]
              /\ pc' = [pc EXCEPT ![c] = IF counted THEN "store" ELSE "outputs"]
        /\ nFail' = Failed(ok)
    /\ UNCHANGED <<used, calls>>

\* A count_calls that sends incr twice.
count_calls_invoker_Twice(c) ==
    /\ pc[c] = "count_calls"
    /\ \E ok \in BOOLEAN :
        /\ MayFail(ok)
        /\ LET k == Utf8Encode(QualStore)
               counted == ok /\ ~RedisIncrErr(db, k)
           IN /\ db' = IF counted THEN RedisIncr(RedisIncr(db, k), k) ELSE db
              /\ fr' = [fr EXCEPT ![c].incOk = counted]
        /\ nFail' = Failed(ok)
    /\ pc' = [pc EXCEPT ![c] = "store"]
    /\ UNCHANGED <<used, calls>>

\* A count_calls that writes 1 under the counter key instead of sending incr.
count_calls_invoker_SetsOne(c) ==
    /\ pc[c] = "count_calls"
    /\ \E ok \in BOOLEAN :
        /\ MayFail(ok)
        /\ LET k == Utf8Encode(QualStore)
               counted == ok /\ ~RedisIncrErr(db, k)
           IN /\ db' = IF counted THEN RedisSet(db, k, DecText(1)) ELSE db
              /\ fr' = [fr EXCEPT ![c].incOk = counted]
        /\ nFail' = Failed(ok)
    /\ pc' = [pc EXCEPT ![c] = "store"]
    /\ UNCHANGED <<used, calls>>

\* count_calls.invoker: incr of the counter, a RedisError caught, then the
\* wrapped method is called.
count_calls_invoker(c) ==
    /\ pc[c] = "count_calls"
    /\ \E ok \in BOOLEAN :
        /\ MayFail(ok)
        /\ LET k == Utf8Encode(QualStore)
               counted == ok /\ ~RedisIncrErr(db, k)
           IN /\ db' = IF counted THEN RedisIncr(db, k) ELSE db
              /\ fr' = [fr EXCEPT ![c].incOk = counted]
        /\ nFail' = Failed(ok)
    /\ pc' = [pc EXCEPT ![c] = "store"]
    /\ UNCHANGED <<used, calls>>

\* uuid.uuid4(): the next UUID not returned before.
uuid4 == UUID4(Cardinality(used) + 1)

\* A store that returns a second uuid4 instead of the key it wrote under.
Cache_store_OtherKey(c) ==
    /\ pc[c] = "store"
    /\ \E ok \in BOOLEAN :
        /\ MayFail(ok)
        /\ LET data_key == UuidText(uuid4) \o <<120>>
               returned == UuidText(uuid4)
           IN /\ db' = IF ok THEN RedisSet(db, Utf8Encode(data_key), RedisEncode(fr[c].data))
                       ELSE db
              /\ fr' = [fr EXCEPT ![c].setOk = ok, ![c].key = data_key,
                                  ![c].inner = returned, ![c].runs = fr[c].runs + 1]
        /\ used' = used \cup {uuid4}
        /\ nFail' = Failed(ok)
    /\ pc' = [pc EXCEPT ![c] = "outputs"]
    /\ UNCHANGED calls

\* A store whose set is in effect on the server also when it is reported as
\* failed.
Cache_store_AppliedOnFailure(c) ==
    /\ pc[c] = "store"
    /\ \E ok \in BOOLEAN :
        /\ MayFail(ok)
        /\ LET u == uuid4
               data_key == UuidText(u)
           IN /\ db' = RedisSet(db, Utf8Encode(data_key), RedisEncode(fr[c].data))
              /\ fr' = [fr EXCEPT ![c].setOk = ok, ![c].key = data_key,
                                  ![c].inner = data_key, ![c].runs = fr[c].runs + 1]
        /\ used' = used \cup {uuid4}
        /\ nFail' = Failed(ok)
    /\ pc' = [pc EXCEPT ![c] = "outputs"]
    /\ UNCHANGED calls

\* The body of Cache.store: a fresh uuid4 as the key, set of the data under
\* it, a RedisError caught; the key is returned.
Cache_store(c) ==
    /\ pc[c] = "store"
    /\ \E ok \in BOOLEAN :
        /\ MayFail(ok)
        /\ LET u == uuid4
               data_key == UuidText(u)
           IN /\ db' = IF ok THEN RedisSet(db, Utf8Encode(data_key), RedisEncode(fr[c].data))
                       ELSE db
              /\ fr' = [fr EXCEPT ![c].setOk = ok, ![c].key = data_key,
                                  ![c].inner = data_key, ![c].runs = fr[c].runs + 1]
        /\ used' = used \cup {uuid4}
        /\ nFail' = Failed(ok)
    /\ pc' = [pc EXCEPT ![c] = "outputs"]
    /\ UNCHANGED calls

\* A call_history whose except clause of the outputs push returns None.
call_history_outputs_LosesOutput(c) ==
    /\ pc[c] = "outputs"
    /\ \E ok \in BOOLEAN :
        /\ MayFail(ok)
        /\ LET k == Utf8Encode(OutKey(QualStore))
               output == fr[c].inner
               pushed == ok /\ ~WrongType(db, k, "list")
               result == IF pushed THEN Return(PyStr(output)) ELSE Return(PyNone)
           IN /\ db' = IF pushed THEN RedisRpush(db, k, Utf8Encode(output)) ELSE db
              /\ fr' = [fr EXCEPT ![c].outOk = pushed, ![c].ret = result,
                                  ![c].outIdx = IF pushed THEN Len(RedisLrange(db, k)) + 1
                                                ELSE 0]
              /\ calls' = Append(calls,
                     [data |-> fr[c].data, ret |-> result, inOk |-> fr[c].inOk,
                      incOk |-> fr[c].incOk, setOk |-> fr[c].setOk, outOk |-> pushed,
                      inIdx |-> fr[c].inIdx,
                      outIdx |-> IF pushed THEN Len(RedisLrange(db, k)) + 1 ELSE 0])
        /\ nFail' = Failed(ok)
    /\ pc' = [pc EXCEPT ![c] = "done"]
    /\ UNCHANGED used

\* A call_history that takes as the output the key uuid4 returned last, to
\* whichever caller.
call_history_outputs_LastKeyDrawn(c) ==
    /\ pc[c] = "outputs"
    /\ \E ok \in BOOLEAN :
        /\ MayFail(ok)
        /\ LET k == Utf8Encode(OutKey(QualStore))
               output == UuidText(UUID4(Cardinality(used)))
               pushed == ok /\ ~WrongType(db, k, "list")
               result == Return(PyStr(output))
           IN /\ db' = IF pushed THEN RedisRpush(db, k, Utf8Encode(output)) ELSE db
              /\ fr' = [fr EXCEPT ![c].outOk = pushed, ![c].ret = result,
                                  ![c].outIdx = IF pushed THEN Len(RedisLrange(db, k)) + 1
                                                ELSE 0]
              /\ calls' = Append(calls,
                     [data |-> fr[c].data, ret |-> result, inOk |-> fr[c].inOk,
                      incOk |-> fr[c].incOk, setOk |-> fr[c].setOk, outOk |-> pushed,
                      inIdx |-> fr[c].inIdx,
                      outIdx |-> IF pushed THEN Len(RedisLrange(db, k)) + 1 ELSE 0])
        /\ nFail' = Failed(ok)
    /\ pc' = [pc EXCEPT ![c] = "done"]
    /\ UNCHANGED used

\* call_history.invoker after the wrapped method returned output: rpush of
\* str(output) to the outputs list, a RedisError caught; output is returned.
call_history_outputs(c) ==
    /\ pc[c] = "outputs"
    /\ \E ok \in BOOLEAN :
        /\ MayFail(ok)
        /\ LET k == Utf8Encode(OutKey(QualStore))
               output == fr[c].inner
               pushed == ok /\ ~WrongType(db, k, "list")
               result == Return(PyStr(output))
           IN /\ db' = IF pushed THEN RedisRpush(db, k, Utf8Encode(output)) ELSE db
              /\ fr' = [fr EXCEPT ![c].outOk = pushed, ![c].ret = result,
                                  ![c].outIdx = IF pushed THEN Len(RedisLrange(db, k)) + 1
                                                ELSE 0]
              /\ calls' = Append(calls,
                     [data |-> fr[c].data, ret |-> result, inOk |-> fr[c].inOk,
                      incOk |-> fr[c].incOk, setOk |-> fr[c].setOk, outOk |-> pushed,
                      inIdx |-> fr[c].inIdx,
                      outIdx |-> IF pushed THEN Len(RedisLrange(db, k)) + 1 ELSE 0])
        /\ nFail' = Failed(ok)
    /\ pc' = [pc EXCEPT ![c] = "done"]
    /\ UNCHANGED used

\* The process dies between two statements of a call of store: the commands
\* already sent stay in effect, the rest of the call never runs, and the
\* caller makes no further call.
Crash(c) ==
    /\ pc[c] \in {"count_calls", "store", "outputs"}
    /\ pc' = [pc EXCEPT ![c] = "crashed"]
    /\ UNCHANGED <<db, fr, used, calls, nFail>>

\* ------------------------------------------------------------------------
\* Cache.get, Cache.get_str, Cache.get_int
\* ------------------------------------------------------------------------

\* One call of get(key, fn); get_str and get_int are the calls with the
\* transforms "decode" and "int".
Cache_get_call(c) ==
    /\ pc[c] = "idle"
    /\ \E key \in GetKeys, fn \in Transforms, ok \in BOOLEAN :
        /\ fr' = [fr EXCEPT ![c] = [NoFrame EXCEPT !.op = "get", !.key = key, !.fn = fn,
                      !.ok = ok,
                      !.ret = IF fn = "decode" THEN Cache_get_str(db, key, ok)
                              ELSE IF fn = "int" THEN Cache_get_int(db, key, ok)
                              ELSE Cache_get(db, key, fn, ok)]]
    /\ pc' = [pc EXCEPT ![c] = "done"]
    /\ UNCHANGED <<db, used, calls, nFail>>

\* ------------------------------------------------------------------------
\* replay
\* ------------------------------------------------------------------------

\* A replay without the isinstance check of the owner's _redis: every
\* reference that has a __self__ goes on to the reads.
replay_count_NoOwnerCheck(c) ==
    /\ pc[c] = "idle"
    /\ \E fn \in ReplayRefs :
        IF fn.ref \in {"none", "function"}
        THEN /\ fr' = [fr EXCEPT ![c] = [NoFrame EXCEPT !.op = "replay", !.ref = fn.ref,
                          !.printed = <<ErrorLine("Invalid method provided for replay.")>>,
                          !.ret = Return(PyNone)]]
             /\ pc' = [pc EXCEPT ![c] = "done"]
        ELSE \E ok \in BOOLEAN :
             LET k == Utf8Encode(fn.name)
                 f0 == [NoFrame EXCEPT !.op = "replay", !.ref = fn.ref, !.name = fn.name,
                                       !.ok = ok, !.reads = 1]
             IN IF ~ok \/ WrongType(db, k, "string")
                THEN /\ fr' = [fr EXCEPT ![c] = [f0 EXCEPT
                                  !.printed = <<ErrorLine("Redis error during replay")>>,
                                  !.ret = Return(PyNone)]]
                     /\ pc' = [pc EXCEPT ![c] = "done"]
                ELSE LET n == ReplayCount(RedisGet(db, k))
                     IN IF n.kind = "raise"
                        THEN /\ fr' = [fr EXCEPT ![c] = [f0 EXCEPT !.ret = n]]
                             /\ pc' = [pc EXCEPT ![c] = "done"]
                        ELSE /\ fr' = [fr EXCEPT ![c] = [f0 EXCEPT
                                          !.printed = <<SummaryLine(fn.name, n.val.n)>>]]
                             /\ pc' = [pc EXCEPT ![c] = "replay_inputs"]
    /\ UNCHANGED <<db, used, calls, nFail>>

\* replay(fn) up to the summary line: the two checks of fn, then the read
\* of the counter; a RedisError ends replay with the error line.
replay_count(c) ==
    /\ pc[c] = "idle"
    /\ \E fn \in ReplayRefs :
        IF fn.ref \in {"none", "function"}
        THEN /\ fr' = [fr EXCEPT ![c] = [NoFrame EXCEPT !.op = "replay", !.ref = fn.ref,
                          !.printed = <<ErrorLine("Invalid method provided for replay.")>>,
                          !.ret = Return(PyNone)]]
             /\ pc' = [pc EXCEPT ![c] = "done"]
        ELSE IF fn.ref = "noredis"
        THEN /\ fr' = [fr EXCEPT ![c] = [NoFrame EXCEPT !.op = "replay", !.ref = fn.ref,
                          !.printed = <<ErrorLine("No Redis instance found.")>>,
                          !.ret = Return(PyNone)]]
             /\ pc' = [pc EXCEPT ![c] = "done"]
        ELSE \E ok \in BOOLEAN :
             LET k == Utf8Encode(fn.name)
                 f0 == [NoFrame EXCEPT !.op = "replay", !.ref = fn.ref, !.name = fn.name,
                                       !.ok = ok, !.reads = 1]
             IN IF ~ok \/ WrongType(db, k, "string")
                THEN /\ fr' = [fr EXCEPT ![c] = [f0 EXCEPT
                                  !.printed = <<ErrorLine("Redis error during replay")>>,
                                  !.ret = Return(PyNone)]]
                     /\ pc' = [pc EXCEPT ![c] = "done"]
                ELSE LET n == ReplayCount(RedisGet(db, k))
                     IN IF n.kind = "raise"
                        THEN /\ fr' = [fr EXCEPT ![c] = [f0 EXCEPT !.ret = n]]
                             /\ pc' = [pc EXCEPT ![c] = "done"]
                        ELSE /\ fr' = [fr EXCEPT ![c] = [f0 EXCEPT
                                          !.printed = <<SummaryLine(fn.name, n.val.n)>>]]
                             /\ pc' = [pc EXCEPT ![c] = "replay_inputs"]
    /\ UNCHANGED <<db, used, calls, nFail>>

\* replay: lrange of the inputs list.
replay_inputs(c) ==
    /\ pc[c] = "replay_inputs"
    /\ \E ok \in BOOLEAN :
        /\ LET k == Utf8Encode(InKey(fr[c].name))
           IN IF ~ok \/ WrongType(db, k, "list")
              THEN /\ fr' = [fr EXCEPT ![c].ok = FALSE, ![c].reads = fr[c].reads + 1,
                                ![c].printed = Append(fr[c].printed,
                                                   ErrorLine("Redis error during replay")),
                                ![c].ret = Return(PyNone)]
                   /\ pc' = [pc EXCEPT ![c] = "done"]
              ELSE /\ fr' = [fr EXCEPT ![c].inputs = RedisLrange(db, k),
                                ![c].reads = fr[c].reads + 1]
                   /\ pc' = [pc EXCEPT ![c] = "replay_outputs"]
    /\ UNCHANGED <<db, used, calls, nFail>>

\* A replay that removes the two lists once it has printed them.
replay_outputs_Consumes(c) ==
    /\ pc[c] = "replay_outputs"
    /\ \E ok \in BOOLEAN :
        /\ LET k == Utf8Encode(OutKey(fr[c].name))
               rest == DOMAIN db \ {k, Utf8Encode(InKey(fr[c].name))}
           IN IF ~ok \/ WrongType(db, k, "list")
              THEN /\ fr' = [fr EXCEPT ![c].ok = FALSE, ![c].reads = fr[c].reads + 1,
                                ![c].printed = Append(fr[c].printed,
                                                   ErrorLine("Redis error during replay")),
                                ![c].ret = Return(PyNone)]
                   /\ db' = db
              ELSE /\ fr' = [fr EXCEPT ![c].reads = fr[c].reads + 1,
                                ![c].printed = fr[c].printed
                                    \o ReplayLines(fr[c].name, fr[c].inputs,
                                                   RedisLrange(db, k)),
                                ![c].ret = Return(PyNone)]
                   /\ db' = [x \in rest |-> db[x]]
    /\ pc' = [pc EXCEPT ![c] = "done"]
    /\ UNCHANGED <<used, calls, nFail>>

\* replay: lrange of the outputs list, then one print per pair of
\* zip(inputs, outputs).
replay_outputs(c) ==
    /\ pc[c] = "replay_outputs"
    /\ \E ok \in BOOLEAN :
        /\ LET k == Utf8Encode(OutKey(fr[c].name))
           IN IF ~ok \/ WrongType(db, k, "list")
              THEN fr' = [fr EXCEPT ![c].ok = FALSE, ![c].reads = fr[c].reads + 1,
                             ![c].printed = Append(fr[c].printed,
                                                ErrorLine("Redis error during replay")),
                             ![c].ret = Return(PyNone)]
              ELSE fr' = [fr EXCEPT ![c].reads = fr[c].reads + 1,
                             ![c].printed = fr[c].printed
                                 \o ReplayLines(fr[c].name, fr[c].inputs, RedisLrange(db, k)),
                             ![c].ret = Return(PyNone)]
    /\ pc' = [pc EXCEPT ![c] = "done"]
    /\ UNCHANGED <<db, used, calls, nFail>>

\* ------------------------------------------------------------------------
\* The caller takes the result and is free for its next call
\* ------------------------------------------------------------------------

Returned(c) ==
    /\ pc[c] = "done"
    /\ pc' = [pc EXCEPT ![c] = "idle"]
    /\ fr' = [fr EXCEPT ![c] = NoFrame]
    /\ UNCHANGED <<db, used, calls, nFail>>

\* ------------------------------------------------------------------------
\* Specification: one caller, one call at a time
\* ------------------------------------------------------------------------

\* The first caller.
First == CHOOSE c \in Callers : \A o \in Callers : c <= o

Next ==
    \/ Cache_init(First)
    \/ call_history_inputs(First)
    \/ count_calls_invoker(First)
    \/ Cache_store(First)
    \/ call_history_outputs(First)
    \/ Crash(First)
    \/ Cache_get_call(First)
    \/ replay_count(First)
    \/ replay_inputs(First)
    \/ replay_outputs(First)
    \/ Returned(First)

Spec == Init /\ [][Next]_vars

\* ------------------------------------------------------------------------
\* Specification: every caller calls store, the calls interleave command by
\* command, and no command fails
\* ------------------------------------------------------------------------

\* The values the callers store: two that differ tell the calls apart.
ConcurrentValues == {PyStr(<<104, 233>>), PyInt(-12)}

NextConcurrent ==
    \E c \in Callers :
        \/ call_history_inputs(c) /\ nFail' = nFail /\ fr'[c].data \in ConcurrentValues
        \/ count_calls_invoker(c) /\ nFail' = nFail
        \/ Cache_store(c) /\ nFail' = nFail
        \/ call_history_outputs(c) /\ nFail' = nFail
        \/ Returned(c)

SpecConcurrent == Init /\ [][NextConcurrent]_vars

\* ------------------------------------------------------------------------
\* What the properties read
\* ------------------------------------------------------------------------

\* A call of store is under way, or was cut short by a crash.
InStore == \E c \in Callers : pc[c] \in {"count_calls", "store", "outputs", "crashed"}

\* The key of the counter and of the two history lists, as the server has them.
CounterKey == Utf8Encode(QualStore)

InputsKey == Utf8Encode(InKey(QualStore))

OutputsKey == Utf8Encode(OutKey(QualStore))

\* The two history lists as they are now.
Inputs == IF InputsKey \in DOMAIN db THEN db[InputsKey].l ELSE <<>>

Outputs == IF OutputsKey \in DOMAIN db THEN db[OutputsKey].l ELSE <<>>

\* The number the counter key holds, 0 when the key is absent.
Counter == IF CounterKey \in DOMAIN db THEN IntValue(db[CounterKey].s) ELSE 0

Min(a, b) == IF a < b THEN a ELSE b

\* The caller c has just finished a call of the operation op.
Done(c, op) == pc[c] = "done" /\ fr[c].op = op

\* ------------------------------------------------------------------------
\* Properties
\* ------------------------------------------------------------------------

\* C1: after N calls of store since the last flush, none of whose operations
\* failed, the key "Cache.store" holds N (and is absent while N = 0).
C1_CounterIsN ==
    (nFail = 0 /\ ~InStore) =>
        IF Len(calls) = 0 THEN CounterKey \notin DOMAIN db
        ELSE CounterKey \in DOMAIN db /\ db[CounterKey] = RString(DecText(Len(calls)))

\* C1 witness: two calls of store have returned, nothing failed.
C1_Witness ==
    /\ nFail = 0 /\ ~InStore /\ Len(calls) >= 2
    /\ CounterKey \in DOMAIN db /\ db[CounterKey].s = <<50>>

\* C2: after N calls of store since the last flush, none of whose operations
\* failed, both history lists have length N, inputs[i] is the text of the
\* argument tuple of call i and outputs[i] the text of the key it returned.
C2_HistoryIsCalls ==
    (nFail = 0 /\ ~InStore) =>
        /\ Len(Inputs) = Len(calls) /\ Len(Outputs) = Len(calls)
        /\ \A i \in 1..Len(calls) :
            /\ Inputs[i] = Utf8Encode(<<40>> \o PyRepr(calls[i].data) \o <<44, 41>>)
            /\ calls[i].ret.kind = "return"
            /\ Outputs[i] = Utf8Encode(calls[i].ret.val.s)

\* C2 witness: store('h\xe9') then store(-12) returned; the inputs list reads
\* "('h\xc3\xa9',)" and "(-12,)" in this order.
C2_Witness ==
    /\ nFail = 0 /\ ~InStore /\ Len(calls) = 2
    /\ Inputs = << <<40, 39, 104, 195, 169, 39, 44, 41>>, <<40, 45, 49, 50, 44, 41>> >>
    /\ Outputs = <<UuidText(UUID4(1)), UuidText(UUID4(2))>>

\* The bytes the server holds for a value: bytes as they are, text as UTF-8,
\* numbers as their decimal text.
Rendering(v) ==
    IF v.ty = "bytes" THEN v.b
    ELSE IF v.ty = "str" THEN Utf8Encode(v.s)
    ELSE IF v.ty = "int" THEN DecText(v.n)
    ELSE DecText(v.ip) \o <<46>> \o DecText(v.fd)

\* C3: while nothing has failed since the last flush, get of the key that a
\* returned call of store gave back reads the byte rendering of its value, in
\* every later state (later calls of store, get and replay included).
C3_GetReadsStored ==
    nFail = 0 =>
        \A i \in 1..Len(calls) :
            Cache_get(db, calls[i].ret.val.s, "none", TRUE)
                = Return(PyBytes(Rendering(calls[i].data)))

\* C3 witness: a get of the first key, after a second call of store, that
\* returned b"1.5" for the stored 1.5.
C3_Witness ==
    \E c \in Callers :
        /\ Done(c, "get") /\ nFail = 0 /\ Len(calls) = 2
        /\ calls[1].data = PyFloat(1, 5)
        /\ fr[c].key = calls[1].ret.val.s /\ fr[c].fn = "none" /\ fr[c].ok
        /\ fr[c].ret = Return(PyBytes(<<49, 46, 53>>))

\* The keys of GetKeys that no call of store drew as its key.
NeverStored == GetKeys \ {UuidText(u) : u \in used}

\* C4: after any sequence of calls of store, get, get_str and get_int return
\* None for every key that no call of store has written a record under, the
\* counter key and the two list keys included.
C4_UnwrittenKeysReadNone ==
    ~InStore =>
        \A k \in NeverStored, fn \in Transforms :
            Cache_get(db, k, fn, TRUE) = Return(PyNone)

\* C5: every call of a facade method (construction, store, get, get_str,
\* get_int) ends by returning, whatever fails and whatever is stored.
C5_NoFacadeCallRaises ==
    \A c \in Callers :
        (pc[c] = "done" /\ fr[c].op \in {"init", "store", "get"}) =>
            fr[c].ret.kind = "return"

\* Nothing of an earlier run is left: the counter reads 0, both lists are
\* empty and every key ever returned reads as absent.
Cleared ==
    /\ ReplayCount(RedisGet(db, CounterKey)) = Return(PyInt(0))
    /\ ~WrongType(db, InputsKey, "list") /\ RedisLrange(db, InputsKey) = <<>>
    /\ ~WrongType(db, OutputsKey, "list") /\ RedisLrange(db, OutputsKey) = <<>>
    /\ \A k \in GetKeys : Cache_get(db, k, "none", TRUE) = Return(PyNone)

\* C6 as stated: right after any construction of a facade the store is cleared.
C6_ConstructionClears ==
    \A c \in Callers : Done(c, "init") => Cleared

\* C6 as amended: right after a construction whose flush succeeded the store
\* is cleared.
C6_FlushedConstructionClears ==
    \A c \in Callers : (Done(c, "init") /\ fr[c].ok) => Cleared

\* C6 witness: a construction flushed a store that held a counter and keys
\* of earlier calls.
C6_Witness ==
    \E c \in Callers :
        /\ Done(c, "init") /\ fr[c].ok
        /\ fr[c].cnt0 = PyBytes(<<50>>) /\ Cardinality(used) >= 2

\* C7: a call of store whose incr failed still ran the wrapped method once
\* and returned its key, and left the counter as it was before the call.
C7_FailedIncrStillCalls ==
    \A c \in Callers :
        (Done(c, "store") /\ ~fr[c].incOk) =>
            /\ fr[c].runs = 1
            /\ fr[c].inner # <<>>
            /\ fr[c].ret = Return(PyStr(fr[c].inner))
            /\ RedisGet(db, CounterKey) = fr[c].cnt0

\* C7 witness: a call of store whose incr alone failed has returned, with
\* the counter still at 1 from the call before.
C7_Witness ==
    \E c \in Callers :
        /\ Done(c, "store") /\ ~fr[c].incOk
        /\ fr[c].inOk /\ fr[c].setOk /\ fr[c].outOk
        /\ fr[c].cnt0 = PyBytes(<<49>>) /\ Counter = 1 /\ Len(Inputs) = 2

\* C8: whatever the two pushes of call_history did, the wrapped method ran
\* once and the caller got exactly what it returned.
C8_HistoryReturnsOutput ==
    \A c \in Callers :
        Done(c, "store") =>
            /\ fr[c].runs = 1
            /\ fr[c].ret = Return(PyStr(fr[c].inner))
            /\ fr[c].inner = fr[c].key

\* C8 witness: a call of store both of whose pushes failed has returned its key.
C8_Witness ==
    \E c \in Callers :
        /\ Done(c, "store") /\ ~fr[c].inOk /\ ~fr[c].outOk
        /\ fr[c].ret = Return(PyStr(UuidText(UUID4(1))))

\* C9: a get (get_str, get_int) whose read failed returns None.
C9_FailedReadIsNone ==
    \A c \in Callers :
        (Done(c, "get") /\ ~fr[c].ok) => fr[c].ret = Return(PyNone)

\* C9 witness: get_int of a key that holds a record, the read failing.
C9_Witness ==
    \E c \in Callers :
        /\ Done(c, "get") /\ ~fr[c].ok /\ fr[c].fn = "int"
        /\ Utf8Encode(fr[c].key) \in DOMAIN db
        /\ fr[c].ret = Return(PyNone)

\* What replay of cache.store is to print on the store as it is: the summary
\* line with the counter, then one line per pair up to the shorter list.
ReplayPrints(printed) ==
    /\ Len(printed) = 1 + Min(Len(Inputs), Len(Outputs))
    /\ printed[1] = SummaryLine(QualStore, Counter)
    /\ \A i \in 1..Min(Len(Inputs), Len(Outputs)) :
        printed[i + 1] = CallLine(QualStore, Utf8Decode(Inputs[i]), Utf8Decode(Outputs[i]))

InvalidRefs == {"none", "function", "noredis"}

\* C11: replay of a reference that is not a bound method (None, a plain
\* function), or whose owner has no Redis client under _redis, prints one
\* error line and returns None: it raises nothing, sends no read to the
\* server, and prints neither the summary line nor a line of a call.
C11_InvalidReplayOnlyReports ==
    \A c \in Callers :
        (fr[c].op = "replay" /\ fr[c].ref \in InvalidRefs) =>
            /\ pc[c] = "done"
            /\ fr[c].ret = Return(PyNone)
            /\ fr[c].reads = 0
            /\ Len(fr[c].printed) = 1
            /\ \A i \in 1..Len(fr[c].printed) : fr[c].printed[i].line = "error"

\* replay of a method of an object without a Redis client under _redis has
\* returned while the server held a history that the reads would have found.
C11_Witness ==
    /\ nFail = 0
    /\ Counter > 0 /\ Len(Inputs) > 0 /\ Len(Outputs) > 0
    /\ \E c \in Callers : Done(c, "replay") /\ fr[c].ref = "noredis"
                                              /\ fr[c].reads = 0

\* ------------------------------------------------------------------------
\* The two orders of wrapping store
\* ------------------------------------------------------------------------

\* The commands one call sends, as each layer adds its own around those of
\* the callable it wraps: the body of store sends set; count_calls sends incr
\* and then calls the wrapped callable.
store_ops == <<"set">>

count_calls_ops(inner) == <<"incr">> \o inner

\* A call_history that records the input only.
call_history_ops_InputsOnly(inner) == <<"rpush_in">> \o inner

\* call_history sends rpush of the input, calls the wrapped callable, and
\* sends rpush of the output.
call_history_ops(inner) == <<"rpush_in">> \o inner \o <<"rpush_out">>

\* @call_history above @count_calls, as the class has it, and the other way
\* round.
HistoryOutsideCounting == call_history_ops(count_calls_ops(store_ops))

CountingOutsideHistory == count_calls_ops(call_history_ops(store_ops))

\* The keyspace after one command of a call of store(data) whose key is key.
ApplyOp(op, d, data, key) ==
    IF op = "rpush_in" THEN RedisRpush(d, InputsKey, Utf8Encode(StrArgs(data)))
    ELSE IF op = "incr" THEN RedisIncr(d, CounterKey)
    ELSE IF op = "set" THEN RedisSet(d, Utf8Encode(key), RedisEncode(data))
    ELSE RedisRpush(d, OutputsKey, Utf8Encode(key))

RECURSIVE ApplyOps(_, _, _, _)
ApplyOps(ops, d, data, key) ==
    IF ops = <<>> THEN d
    ELSE ApplyOps(Tail(ops), ApplyOp(Head(ops), d, data, key), data, key)

\* The keyspace after store was called with each value of datas in turn, no
\* command failing, on a server flushed when uuid4 had been drawn drawn times;
\* every call sends the commands of ops in their order.
RECURSIVE RunCalls(_, _, _)
RunCalls(ops, datas, drawn) ==
    IF datas = <<>> THEN EmptyDb
    ELSE LET n == Len(datas)
             before == RunCalls(ops, SubSeq(datas, 1, n - 1), drawn)
         IN ApplyOps(ops, before, datas[n], UuidText(UUID4(drawn + n)))

\* ------------------------------------------------------------------------
\* C12: for every sequence of store calls with no failed command, store
\* wrapped as history-outside-counting (the code) and store wrapped as
\* counting-outside-history leave the same counter, the same inputs list and
\* the same outputs list and return the same keys; the whole keyspace is the
\* same, and it is the one the calls of the program left.
\* ------------------------------------------------------------------------

C12_WrappingOrderIsImmaterial ==
    (nFail = 0 /\ ~InStore) =>
        LET datas == [i \in 1..Len(calls) |-> calls[i].data]
            drawn == Cardinality(used) - Len(calls)
            coded == RunCalls(HistoryOutsideCounting, datas, drawn)
            other == RunCalls(CountingOutsideHistory, datas, drawn)
        IN /\ db = coded
           /\ other = coded
           /\ RedisGet(other, CounterKey) = RedisGet(db, CounterKey)
           /\ RedisLrange(other, InputsKey) = Inputs
           /\ RedisLrange(other, OutputsKey) = Outputs
           /\ \A i \in 1..Len(calls) :
                calls[i].ret = Return(PyStr(Utf8Decode(RedisLrange(other, OutputsKey)[i])))

\* Two calls of store with different values have returned, nothing failed.
C12_Witness ==
    /\ nFail = 0 /\ ~InStore /\ Len(calls) = 2 /\ Counter = 2
    /\ calls[1].data # calls[2].data
    /\ Len(Inputs) = 2 /\ Len(Outputs) = 2

\* ------------------------------------------------------------------------
\* The counter from step to step
\* ------------------------------------------------------------------------

\* The number under the counter key of the keyspace d, 0 when it is absent.
CounterOf(d) == IF CounterKey \in DOMAIN d THEN IntValue(d[CounterKey].s) ELSE 0

\* The step is the flush of a construction.
FlushStep == \E c \in Callers : pc[c] = "idle" /\ pc'[c] = "done" /\ fr'[c].op = "init"

\* The step is the one of caller c that sends incr.
IncrStep(c) == pc[c] = "count_calls" /\ pc'[c] = "store"

\* The step is the one in which the call of store of caller c returns.
StoreReturns(c) == pc[c] = "outputs" /\ pc'[c] = "done"

\* C13: the counter of store never goes down in a step other than the flush
\* of a construction; the step of a call of store that sends incr raises it
\* by 1 when incr succeeds and leaves it when incr fails, no other step of
\* the call moves it, so that a whole call raises it by 1 or by 0.
\* (A step that leaves the keyspace as it is leaves the counter as it is; the
\* counter is read in the steps that change the keyspace.)
C13_CounterMonotonic ==
    [][/\ (db' # db /\ ~FlushStep) =>
            /\ Counter' >= Counter
            /\ (\A c \in Callers : ~IncrStep(c)) => Counter' = Counter
       /\ \A c \in Callers :
            /\ IncrStep(c) => Counter' = Counter + (IF fr'[c].incOk THEN 1 ELSE 0)
            /\ StoreReturns(c) =>
                 Counter' = CounterOf(fr'[c].db0) + (IF fr'[c].incOk THEN 1 ELSE 0)]_vars

\* A second call of store whose incr failed has returned after a first whose
\* incr took the counter to 1: the counter still reads 1.
C13_Witness ==
    \E c \in Callers :
        /\ Done(c, "store") /\ ~fr[c].incOk /\ CounterOf(fr[c].db0) = 1 /\ Counter = 1
        /\ Len(calls) = 2 /\ calls[1].incOk

\* ------------------------------------------------------------------------
\* Pairing of the two lists by index
\* ------------------------------------------------------------------------

\* One returned call wrote both the entry i of the inputs list and the entry
\* i of the outputs list, and they are its argument and its key.
SameCall(i) ==
    \E j \in 1..Len(calls) :
        /\ calls[j].inOk /\ calls[j].inIdx = i
        /\ calls[j].outOk /\ calls[j].outIdx = i
        /\ Inputs[i] = Utf8Encode(StrArgs(calls[j].data))
        /\ Outputs[i] = Utf8Encode(calls[j].ret.val.s)

\* C14: after any sequence of calls of store made one after the other, the
\* calls whose rpush of the input or of the output failed included, the
\* entries at every index the two lists share were written by the same call.
C14_PairsSameCall ==
    ~InStore => \A i \in 1..Min(Len(Inputs), Len(Outputs)) : SameCall(i)

\* C14 as it holds: the same, for the sequences in which no call wrote one
\* of its two entries without the other.
C14_PairsSameCallWhenBothOrNeither ==
    (~InStore /\ \A j \in 1..Len(calls) : calls[j].inOk = calls[j].outOk) =>
        \A i \in 1..Min(Len(Inputs), Len(Outputs)) : SameCall(i)

\* A call both of whose appends failed was followed by a call both of whose
\* appends succeeded: the one pair of the lists is the second call's.
C14_Witness ==
    /\ ~InStore /\ Len(calls) = 2
    /\ ~calls[1].inOk /\ ~calls[1].outOk
    /\ calls[2].inOk /\ calls[2].outOk
    /\ Len(Inputs) = 1 /\ Len(Outputs) = 1 /\ SameCall(1)

\* ------------------------------------------------------------------------
\* A call of store whose set fails
\* ------------------------------------------------------------------------

\* The keys of the records: every key but the counter and the two lists.
RecordKeys(d) == DOMAIN d \ {CounterKey, InputsKey, OutputsKey}

\* The call of store that caller c has just finished failed in its set only.
OnlySetFailed(c) ==
    /\ Done(c, "store")
    /\ fr[c].inOk /\ fr[c].incOk /\ ~fr[c].setOk /\ fr[c].outOk

\* C15: a call of store whose set fails while its two rpushes and its incr
\* succeed still returns a key that was never returned before; no record is
\* under that key (get of it returns None), every other record is as it was
\* before the call, the counter has gone up by 1, and the argument and the
\* key are the new last entries of the inputs and the outputs list.
C15_FailedSetStillReturnsKey ==
    \A c \in Callers :
        OnlySetFailed(c) =>
            LET key == fr[c].key
                before == fr[c].db0
            IN /\ fr[c].ret = Return(PyStr(key))
               /\ \E u \in used : key = UuidText(u)
               /\ Utf8Encode(key) \notin DOMAIN before
               /\ \A i \in 1..Len(RedisLrange(before, OutputsKey)) :
                    RedisLrange(before, OutputsKey)[i] # Utf8Encode(key)
               /\ \A j \in 1..(Len(calls) - 1) : calls[j].ret # fr[c].ret
               /\ Utf8Encode(key) \notin DOMAIN db
               /\ Cache_get(db, key, "none", TRUE) = Return(PyNone)
               /\ RecordKeys(db) = RecordKeys(before)
               /\ \A k \in RecordKeys(before) : db[k] = before[k]
               /\ Counter = CounterOf(before) + 1
               /\ Inputs = RedisLrange(before, InputsKey)
                              \o <<Utf8Encode(StrArgs(fr[c].data))>>
               /\ Outputs = RedisLrange(before, OutputsKey) \o <<Utf8Encode(key)>>

\* The second call of store failed in its set only, while the record of the
\* first call was on the server.
C15_Witness ==
    \E c \in Callers :
        /\ OnlySetFailed(c) /\ nFail = 1
        /\ Len(calls) = 2 /\ calls[1].setOk
        /\ Cardinality(RecordKeys(db)) = 1
        /\ Counter = 2 /\ Len(Inputs) = 2 /\ Len(Outputs) = 2

\* ------------------------------------------------------------------------
\* The calls that only read
\* ------------------------------------------------------------------------

\* The step is one of a call of get, get_str, get_int or replay by caller c.
ReadStep(c) == pc'[c] # pc[c] /\ fr'[c].op \in {"get", "replay"}

\* The step is one of a call of store or of a construction by caller c.
WriteStep(c) == pc'[c] # pc[c] /\ fr'[c].op \in {"store", "init"}

\* C16: get, get_str, get_int and replay are read-only: every step of one of
\* them, whether the call returns a value, returns None or prints an error,
\* leaves the keyspace, which holds every record, the counter and both
\* history lists, as it was;
\* the steps that change the keyspace are steps of store and of a
\* construction.
C16_ReadsChangeNothing ==
    [][/\ (\E c \in Callers : ReadStep(c)) => db' = db
       /\ db' # db => \E c \in Callers : WriteStep(c)]_vars

\* A replay that made its three reads and printed the summary and the line
\* of one call, over a keyspace that holds a record, the counter and both
\* lists.
C16_Witness ==
    /\ Counter > 0 /\ Len(Inputs) > 0 /\ Len(Outputs) > 0
    /\ RecordKeys(db) # {}
    /\ \E c \in Callers :
        Done(c, "replay") /\ fr[c].reads = 3 /\ Len(fr[c].printed) = 2

\* ------------------------------------------------------------------------
\* The order of the commands of one call
\* ------------------------------------------------------------------------

\* The keyspace is the one the first n commands of the call of caller c, in
\* the order of the code, make of the keyspace the call started from.
SentFirst(c, n) ==
    db = ApplyOps(SubSeq(HistoryOutsideCounting, 1, n), fr[c].db0, fr[c].data, fr[c].key)

\* C17: one call of store sends its commands in the order rpush of the
\* input, incr, set, rpush of the output; so, with one caller at a time and
\* no failed command, every reachable state, the states in the middle of a
\* call and the state a crash in the middle of a call leaves included, has
\* len(outputs) <= counter <= len(inputs) <= len(outputs) + 1.
C17_OrderedCommandsBoundLengths ==
    nFail = 0 =>
        /\ Len(Outputs) <= Counter
        /\ Counter <= Len(Inputs)
        /\ Len(Inputs) <= Len(Outputs) + 1
        /\ \A c \in Callers :
            /\ pc[c] = "count_calls" => SentFirst(c, 1)
            /\ pc[c] = "store" => SentFirst(c, 2)
            /\ pc[c] = "outputs" => SentFirst(c, 3)
            /\ Done(c, "store") => SentFirst(c, 4)
            /\ pc[c] = "crashed" => \E n \in 1..3 : SentFirst(c, n)

\* After one whole call, a second call crashed when only the rpush of its
\* input had been sent: two inputs, counter 1, one output.
C17_Witness ==
    /\ nFail = 0
    /\ \E c \in Callers : pc[c] = "crashed" /\ SentFirst(c, 1)
    /\ Len(Inputs) = 2 /\ Counter = 1 /\ Len(Outputs) = 1

\* ------------------------------------------------------------------------
\* Calls of store at the same time
\* ------------------------------------------------------------------------

\* The M calls that have returned are counted, each has its argument in the
\* inputs list and its key in the outputs list at the place it pushed them
\* to, and its key reads back its value.
AllCallsRecorded ==
    LET M == Len(calls)
    IN /\ Counter = M /\ Len(Inputs) = M /\ Len(Outputs) = M
       /\ \A j \in 1..M :
            /\ calls[j].inIdx \in 1..M /\ calls[j].outIdx \in 1..M
            /\ Inputs[calls[j].inIdx] = Utf8Encode(StrArgs(calls[j].data))
            /\ Outputs[calls[j].outIdx] = Utf8Encode(calls[j].ret.val.s)
            /\ Cache_get(db, calls[j].ret.val.s, "none", TRUE)
                  = Return(PyBytes(Rendering(calls[j].data)))
            /\ \A i \in 1..M :
                 i # j => /\ calls[i].inIdx # calls[j].inIdx
                          /\ calls[i].outIdx # calls[j].outIdx
                          /\ calls[i].ret # calls[j].ret

\* C18: when several callers run store at the same time against one server,
\* every command atomic and none failing, then under every interleaving, once
\* all M calls have returned, the counter is M, both lists have M entries,
\* every returned key reads back its own value, and at every index i the
\* entries of the two lists belong to the same call.
C18_ConcurrentCallsPairByIndex ==
    ~InStore => /\ AllCallsRecorded
                /\ \A i \in 1..Len(calls) : SameCall(i)

\* C18 as it holds: the same without the pairing by index, which holds for
\* the calls whose two pushes fell at the same index.
C18_ConcurrentCallsAllRecorded ==
    ~InStore => /\ AllCallsRecorded
                /\ \A j \in 1..Len(calls) :
                     calls[j].inIdx = calls[j].outIdx => SameCall(calls[j].inIdx)

\* Two calls with different values ran at the same time and have returned;
\* the one that pushed its input first pushed its output last.
C18_Witness ==
    /\ ~InStore /\ Len(calls) = 2 /\ Counter = 2
    /\ calls[1].data # calls[2].data
    /\ calls[1].inIdx = 2 /\ calls[1].outIdx = 1
    /\ calls[2].inIdx = 1 /\ calls[2].outIdx = 2
    /\ AllCallsRecorded

====
